---- MODULE Spec2Model ----
(***************************************************************************)
(* SCP-079-STATUS, plugins/functions/status.py.                            *)
(*                                                                         *)
(* A text is a sequence of one-character strings.  Every substitution      *)
(* function of status.py is an operator from (text, metric) to the text it *)
(* returns, where the metric is what the OS accessor answered: a raw value *)
(* or Raise, an exception thrown by the accessor.  get_status is the       *)
(* sequence of the seventeen passes of lines 370-392.                      *)
(***************************************************************************)
EXTENDS Integers, Sequences, FiniteSets, TLC

VARIABLES report, result, pc, calls, metrics, last, fn, b, size

vars == <<report, result, pc, calls, metrics, last, fn, b, size>>

(***************************************************************************)
(* Bounds of the model.                                                    *)
(***************************************************************************)
MaxPieces == 2      \* fragments a template is made of
MaxCalls == 2       \* function calls in a row on one text (SpecFn)
MaxCores == 2       \* values a per-core sample returns
MaxDigits == 7      \* base-1024 digits of a byte count (7: up to 1024^7 - 1)

(***************************************************************************)
(* Strings.                                                                *)
(***************************************************************************)
\* `old in s` at position i (1-based)
MatchAt(s, old, i) ==
    /\ i >= 1
    /\ i + Len(old) - 1 <= Len(s)
    /\ \A j \in 1..Len(old) : s[i + j - 1] = old[j]

\* Python's `old in s`
Contains(s, old) == \E i \in 1..(Len(s) - Len(old) + 1) : MatchAt(s, old, i)

\* Python's s.replace(old, new): the leftmost occurrence is replaced, the
\* scan goes on after it (occurrences never overlap), for a non-empty old.
RECURSIVE ReplaceFrom(_, _, _, _)
ReplaceFrom(s, old, new, i) ==
    IF i > Len(s) THEN <<>>
    ELSE IF MatchAt(s, old, i)
         THEN new \o ReplaceFrom(s, old, new, i + Len(old))
         ELSE <<s[i]>> \o ReplaceFrom(s, old, new, i + 1)

Replace(s, old, new) == ReplaceFrom(s, old, new, 1)

DigitChar == <<"0", "1", "2", "3", "4", "5", "6", "7", "8", "9">>

\* str(n) of a natural number
RECURSIVE IntToStr(_)
IntToStr(n) ==
    IF n < 10 THEN <<DigitChar[n + 1]>>
    ELSE IntToStr(n \div 10) \o <<DigitChar[(n % 10) + 1]>>

\* the text of h hundredths with two decimals: 102400 is "1024.00"
Hundredths(h) ==
    IntToStr(h \div 100) \o <<".", DigitChar[((h \div 10) % 10) + 1], DigitChar[(h % 10) + 1]>>

(***************************************************************************)
(* get_size, lines 344-361.  A byte count is a little-endian sequence of   *)
(* MaxDigits base-1024 digits (b[1] the units), because 1024^6 is past     *)
(* the integers TLC computes with; None is a value that is no number.      *)
(* After the first `b /= factor` b is a float: the quotient of two ints    *)
(* rounded to 53 significant bits, and each later division by 1024 is      *)
(* exact.  The float is held as (digits x, k): the value x / 1024^k.       *)
(***************************************************************************)
factor == 1024
MantissaBits == 53
\* Python values: None, and an int whose value is v
None == [t |-> "None"]
PyInt(v) == [t |-> "int", v |-> v]
Units == <<"", "K", "M", "G", "T", "P">>

RECURSIVE Pow2(_)
Pow2(n) == IF n = 0 THEN 1 ELSE 2 * Pow2(n - 1)

RECURSIVE BitLen(_)
BitLen(d) == IF d = 0 THEN 0 ELSE 1 + BitLen(d \div 2)

IsZero(x) == \A i \in 1..Len(x) : x[i] = 0

\* the index of the highest non-zero digit (0 for zero)
Top(x) == IF IsZero(x) THEN 0 ELSE CHOOSE i \in 1..Len(x) : x[i] # 0 /\ \A j \in (i + 1)..Len(x) : x[j] = 0

\* x + c * 1024^(i-1), the carry running up the digits of x
RECURSIVE AddAt(_, _, _)
AddAt(x, i, c) ==
    IF c = 0 \/ i > Len(x) THEN x
    ELSE AddAt([x EXCEPT ![i] = (x[i] + c) % factor], i + 1, (x[i] + c) \div factor)

\* the three lowest digits as one integer (below 2^30)
Low3(x) == x[1] + factor * x[2] + factor * factor * x[3]

\* int -> float: round to 53 significant bits, ties to even (one more digit
\* than x has, for the carry of a value that rounds up to a power of two)
Round53(x) ==
    LET nbits == IF IsZero(x) THEN 0 ELSE 10 * (Top(x) - 1) + BitLen(x[Top(x)])
        n == nbits - MantissaBits
    IN IF n <= 0 THEN x \o <<0>>
       ELSE LET unit == Pow2(n)
                low == Low3(x)
                q == low \div unit
                r == low % unit
                up == r > unit \div 2 \/ (r = unit \div 2 /\ q % 2 = 1)
                newlow == (IF up THEN q + 1 ELSE q) * unit
                cleared == [i \in 1..(Len(x) + 1) |-> IF i <= 3 \/ i > Len(x) THEN 0 ELSE x[i]]
            IN AddAt(AddAt(AddAt(cleared, 1, newlow % factor), 2, (newlow \div factor) % factor),
                     3, newlow \div (factor * factor))

\* the float x / 1024^k is below 1024
FloatLess1024(x, k) == \A i \in (k + 2)..Len(x) : x[i] = 0

\* the integer part of x / 1024^k
RECURSIVE IntPart(_, _)
IntPart(x, i) == IF i > Len(x) THEN 0 ELSE x[i] + factor * IntPart(x, i + 1)

\* 100 * (fraction of x / 1024^k), digit by digit from the lowest: the
\* result is <<carry, top remainder digit, lower remainder digits all zero>>
RECURSIVE Times100(_, _, _, _, _)
Times100(x, k, i, carry, lowzero) ==
    IF i > k THEN <<carry, 0, lowzero>>
    ELSE LET t == 100 * x[i] + carry
         IN IF i = k THEN <<t \div factor, t % factor, lowzero>>
            ELSE Times100(x, k, i + 1, t \div factor, lowzero /\ (t % factor = 0))

\* f"{v:.2f}" of the float v = x / 1024^k, in hundredths: the exact decimal
\* value rounded to two places, ties to even
Round2f(x, k) ==
    LET whole == IntPart(x, k + 1)
        m == Times100(x, k, 1, 0, TRUE)
        h == 100 * whole + m[1]
        half == factor \div 2
        up == m[2] > half \/ (m[2] = half /\ ~m[3]) \/ (m[2] = half /\ m[3] /\ h % 2 = 1)
    IN IF up THEN h + 1 ELSE h

\* the for loop of lines 351-355: <<x, k, unit>> when it ends, by break or
\* by running out of units (then unit is still the last one, "P")
RECURSIVE SizeLoop(_, _, _)
SizeLoop(x, k, u) ==
    IF FloatLess1024(x, k) THEN <<x, k, Units[u]>>
    ELSE LET y == IF k = 0 THEN Round53(x) ELSE x
         IN IF u = Len(Units) THEN <<y, k + 1, Units[u]>>
            ELSE SizeLoop(y, k + 1, u + 1)

get_size(n, suffix) ==
    IF n.t # "int"
    THEN <<>>    \* `b < factor` raises TypeError: caught, logged, result is ""
    ELSE LET e == SizeLoop(n.v, 0, 1)
         IN Hundredths(Round2f(e[1], e[2])) \o <<" ">>
              \o (IF e[3] = "" THEN <<>> ELSE <<e[3]>>) \o suffix

(***************************************************************************)
(* What an accessor answers.  Raise: it threw.  Otherwise a Python value:  *)
(* None, an int (PyInt), a float held in tenths (PyFloat), a str, a tuple  *)
(* or list, or the record psutil returns (scpufreq in thousandths of a     *)
(* Mhz, svmem with its byte counts).                                       *)
(***************************************************************************)
Raise == [t |-> "raise"]
Unfetched == [t |-> "unfetched"]
PyFloat(tenths) == [t |-> "float", v |-> tenths]
Str(s) == [t |-> "str", v |-> s]
Tuple(s) == [t |-> "tuple", v |-> s]
List(s) == [t |-> "list", v |-> s]

\* str(x), and x in an f-string: an int, a float with one decimal, None
PyStr(x) ==
    CASE x.t = "None" -> <<"N", "o", "n", "e">>
      [] x.t = "int" -> IntToStr(x.v)
      [] x.t = "float" -> IntToStr(x.v \div 10) \o <<".", DigitChar[(x.v % 10) + 1]>>
      [] x.t = "str" -> x.v

\* sep.join(parts)
RECURSIVE Join(_, _)
Join(sep, parts) ==
    IF parts = <<>> THEN <<>>
    ELSE IF Len(parts) = 1 THEN parts[1]
    ELSE parts[1] \o sep \o Join(sep, Tail(parts))

\* v / unit rounded to an integer, ties to even: what the format specs
\* .0f and .2f do to a float whose decimal expansion is exact
RoundHalfEven(v, unit) ==
    LET q == v \div unit
        r == v % unit
    IN IF 2 * r > unit \/ (2 * r = unit /\ q % 2 = 1) THEN q + 1 ELSE q

Mhz == <<" ", "M", "h", "z">>

\* etc.lang and etc.code are not part of this file: the localized label and
\* separator of the per-core line, and the markup around a value (each tag
\* one symbol of the text)
lang(key) ==
    CASE key = "core" -> <<"C", "o", "r", "e">>
      [] key = "colon" -> <<":", " ">>

code(text) == <<"<code>">> \o text \o <<"</code>">>

(***************************************************************************)
(* The substitution functions.  Each answers [result, fetched, logged,     *)
(* raised]: the text it returns, whether it called its accessor, whether   *)
(* a warning was logged for the call, and whether an exception left it     *)
(* (never: every body is inside try / except Exception).                   *)
(***************************************************************************)
\* the codename of each function: its placeholder token
Codename ==
    [get_interval |-> <<"$", "i", "n", "t", "e", "r", "v", "a", "l", "$">>,
     get_last |-> <<"$", "l", "a", "s", "t", "$">>,
     get_dist |-> <<"$", "d", "i", "s", "t", "$">>,
     get_kernel |-> <<"$", "k", "e", "r", "n", "e", "l", "$">>,
     get_hostname |-> <<"$", "h", "o", "s", "t", "n", "a", "m", "e", "$">>,
     get_up_time |-> <<"$", "u", "p", "_", "t", "i", "m", "e", "$">>,
     get_cpu_count_physical |-> <<"$", "c", "p", "u", "_", "c", "o", "u", "n", "t", "_", "p", "h", "y", "s", "i", "c", "a", "l", "$">>,
     get_cpu_count_logical |-> <<"$", "c", "p", "u", "_", "c", "o", "u", "n", "t", "_", "l", "o", "g", "i", "c", "a", "l", "$">>,
     get_cpu_freq_max |-> <<"$", "f", "r", "e", "q", "_", "m", "a", "x", "$">>,
     get_cpu_freq_min |-> <<"$", "f", "r", "e", "q", "_", "m", "i", "n", "$">>,
     get_cpu_freq_current |-> <<"$", "f", "r", "e", "q", "_", "c", "u", "r", "r", "e", "n", "t", "$">>,
     get_cpu_usage_total |-> <<"$", "c", "p", "u", "_", "p", "e", "r", "c", "e", "n", "t", "$">>,
     get_cpu_usage_per |-> <<"$", "c", "p", "u", "_", "p", "e", "r", "c", "e", "n", "t", "_", "p", "e", "r", "$">>,
     get_mem_total |-> <<"$", "m", "e", "m", "o", "r", "y", "_", "t", "o", "t", "a", "l", "$">>,
     get_mem_available |-> <<"$", "m", "e", "m", "o", "r", "y", "_", "a", "v", "a", "i", "l", "a", "b", "l", "e", "$">>,
     get_mem_used |-> <<"$", "m", "e", "m", "o", "r", "y", "_", "u", "s", "e", "d", "$">>,
     get_mem_percent |-> <<"$", "m", "e", "m", "o", "r", "y", "_", "p", "e", "r", "c", "e", "n", "t", "$">>]

Return(text, fetched, logged) ==
    [result |-> text, fetched |-> fetched, logged |-> logged, raised |-> FALSE]

\* get_cpu_count_logical without the test of line 41
get_cpu_count_logical_unchecked(text, m) ==
    LET codename == Codename.get_cpu_count_logical
    IN IF m.t = "raise" THEN Return(text, TRUE, TRUE)
       ELSE Return(Replace(text, codename, PyStr(m)), TRUE, FALSE)

\* status = str(cpu_count(logical=True))
get_cpu_count_logical(text, m) ==
    LET codename == Codename.get_cpu_count_logical
    IN IF ~Contains(text, codename) THEN Return(text, FALSE, FALSE)
       ELSE IF m.t = "raise" THEN Return(text, TRUE, TRUE)
       ELSE Return(Replace(text, codename, PyStr(m)), TRUE, FALSE)

\* status = str(cpu_count(logical=False))
get_cpu_count_physical(text, m) ==
    LET codename == Codename.get_cpu_count_physical
    IN IF ~Contains(text, codename) THEN Return(text, FALSE, FALSE)
       ELSE IF m.t = "raise" THEN Return(text, TRUE, TRUE)
       ELSE Return(Replace(text, codename, PyStr(m)), TRUE, FALSE)

\* status = f"{cpu_freq().current:.2f} Mhz"
get_cpu_freq_current(text, m) ==
    LET codename == Codename.get_cpu_freq_current
    IN IF ~Contains(text, codename) THEN Return(text, FALSE, FALSE)
       ELSE IF m.t = "raise" \/ m.t = "None" THEN Return(text, TRUE, TRUE)  \* None has no such attribute
       ELSE Return(Replace(text, codename, Hundredths(RoundHalfEven(m.current, 10)) \o Mhz), TRUE, FALSE)

\* status = f"{cpu_percent()}%"
get_cpu_usage_total(text, m) ==
    LET codename == Codename.get_cpu_usage_total
    IN IF ~Contains(text, codename) THEN Return(text, FALSE, FALSE)
       ELSE IF m.t = "raise" THEN Return(text, TRUE, TRUE)
       ELSE Return(Replace(text, codename, PyStr(m) \o <<"%">>), TRUE, FALSE)

\* lines 120-126: one line per core, the last "\n" cut off
RECURSIVE PerCoreLines(_, _)
PerCoreLines(percents, i) ==
    IF i > Len(percents) THEN <<>>
    ELSE <<"\t", "\t", "\t", "\t">> \o lang("core") \o <<"\t">> \o IntToStr(i) \o lang("colon")
           \o code(PyStr(PyFloat(percents[i])) \o <<"%">>) \o <<"\n">>
           \o PerCoreLines(percents, i + 1)

\* the status without line 126
PerCoreStatusUncut(percents) == PerCoreLines(percents, 1)

PerCoreStatus(percents) ==
    LET status == PerCoreLines(percents, 1)
    IN IF status # <<>> THEN SubSeq(status, 1, Len(status) - 1) ELSE status

get_cpu_usage_per(text, m) ==
    LET codename == Codename.get_cpu_usage_per
    IN IF ~Contains(text, codename) THEN Return(text, FALSE, FALSE)
       ELSE IF m.t = "raise" THEN Return(text, TRUE, TRUE)
       ELSE Return(Replace(text, codename, PerCoreStatus(m.v)), TRUE, FALSE)

\* status = f"{cpu_freq().max:.0f} Mhz"
get_cpu_freq_max(text, m) ==
    LET codename == Codename.get_cpu_freq_max
    IN IF ~Contains(text, codename) THEN Return(text, FALSE, FALSE)
       ELSE IF m.t = "raise" \/ m.t = "None" THEN Return(text, TRUE, TRUE)  \* None has no such attribute
       ELSE Return(Replace(text, codename, IntToStr(RoundHalfEven(m.max, 1000)) \o Mhz), TRUE, FALSE)

\* status = f"{cpu_freq().min:.0f} Mhz"
get_cpu_freq_min(text, m) ==
    LET codename == Codename.get_cpu_freq_min
    IN IF ~Contains(text, codename) THEN Return(text, FALSE, FALSE)
       ELSE IF m.t = "raise" \/ m.t = "None" THEN Return(text, TRUE, TRUE)  \* None has no such attribute
       ELSE Return(Replace(text, codename, IntToStr(RoundHalfEven(m.min, 1000)) \o Mhz), TRUE, FALSE)

\* status = " ".join(d for d in linux_distribution()[:-1])
get_dist(text, m) ==
    LET codename == Codename.get_dist
    IN IF ~Contains(text, codename) THEN Return(text, FALSE, FALSE)
       ELSE IF m.t = "raise" THEN Return(text, TRUE, TRUE)
       ELSE Return(Replace(text, codename, Join(<<" ">>, SubSeq(m.v, 1, Len(m.v) - 1))), TRUE, FALSE)

\* s.replace(old, new, 1)
RECURSIVE ReplaceFirst(_, _, _, _)
ReplaceFirst(s, old, new, i) ==
    IF i > Len(s) THEN <<>>
    ELSE IF MatchAt(s, old, i) THEN new \o SubSeq(s, i + Len(old), Len(s))
    ELSE <<s[i]>> \o ReplaceFirst(s, old, new, i + 1)

\* get_hostname replacing the first occurrence alone
get_hostname_first(text, m) ==
    LET codename == Codename.get_hostname
    IN IF ~Contains(text, codename) THEN Return(text, FALSE, FALSE)
       ELSE IF m.t = "raise" THEN Return(text, TRUE, TRUE)
       ELSE Return(ReplaceFirst(text, codename, m.v, 1), TRUE, FALSE)

\* status = gethostname()
get_hostname(text, m) ==
    LET codename == Codename.get_hostname
    IN IF ~Contains(text, codename) THEN Return(text, FALSE, FALSE)
       ELSE IF m.t = "raise" THEN Return(text, TRUE, TRUE)
       ELSE Return(Replace(text, codename, m.v), TRUE, FALSE)

\* get_interval without its try / except: the exception leaves the call,
\* and the warning is the one of the caller
get_interval_uncaught(text, m) ==
    LET codename == Codename.get_interval
    IN IF ~Contains(text, codename) THEN Return(text, FALSE, FALSE)
       ELSE IF m.t = "raise" THEN [result |-> text, fetched |-> TRUE, logged |-> TRUE, raised |-> TRUE]
       ELSE Return(Replace(text, codename, PyStr(m)), TRUE, FALSE)

\* get_interval replacing the codename of the function next to it
get_interval_other_codename(text, m) ==
    LET codename == Codename.get_interval
    IN IF ~Contains(text, codename) THEN Return(text, FALSE, FALSE)
       ELSE IF m.t = "raise" THEN Return(text, TRUE, TRUE)
       ELSE Return(Replace(text, Codename.get_last, PyStr(m)), TRUE, FALSE)

\* status = str(glovar.interval)
get_interval(text, m) ==
    LET codename == Codename.get_interval
    IN IF ~Contains(text, codename) THEN Return(text, FALSE, FALSE)
       ELSE IF m.t = "raise" THEN Return(text, TRUE, TRUE)
       ELSE Return(Replace(text, codename, PyStr(m)), TRUE, FALSE)

\* status = uname().release
get_kernel(text, m) ==
    LET codename == Codename.get_kernel
    IN IF ~Contains(text, codename) THEN Return(text, FALSE, FALSE)
       ELSE IF m.t = "raise" THEN Return(text, TRUE, TRUE)
       ELSE Return(Replace(text, codename, m.v), TRUE, FALSE)

\* status = get_readable_time(the_format=glovar.format_date)
get_last(text, m) ==
    LET codename == Codename.get_last
    IN IF ~Contains(text, codename) THEN Return(text, FALSE, FALSE)
       ELSE IF m.t = "raise" THEN Return(text, TRUE, TRUE)
       ELSE Return(Replace(text, codename, m.v), TRUE, FALSE)

\* status = str(get_size(virtual_memory().available))
get_mem_available(text, m) ==
    LET codename == Codename.get_mem_available
    IN IF ~Contains(text, codename) THEN Return(text, FALSE, FALSE)
       ELSE IF m.t = "raise" THEN Return(text, TRUE, TRUE)
       ELSE Return(Replace(text, codename, get_size(m.available, <<"B">>)), TRUE, FALSE)

\* status = f"{virtual_memory().percent}%"
get_mem_percent(text, m) ==
    LET codename == Codename.get_mem_percent
    IN IF ~Contains(text, codename) THEN Return(text, FALSE, FALSE)
       ELSE IF m.t = "raise" THEN Return(text, TRUE, TRUE)
       ELSE Return(Replace(text, codename, PyStr(m.percent) \o <<"%">>), TRUE, FALSE)

\* status = str(get_size(virtual_memory().total))
get_mem_total(text, m) ==
    LET codename == Codename.get_mem_total
    IN IF ~Contains(text, codename) THEN Return(text, FALSE, FALSE)
       ELSE IF m.t = "raise" THEN Return(text, TRUE, TRUE)
       ELSE Return(Replace(text, codename, get_size(m.total, <<"B">>)), TRUE, FALSE)

\* get_mem_used without the test of line 332
get_mem_used_unchecked(text, m) ==
    LET codename == Codename.get_mem_used
    IN IF m.t = "raise" THEN Return(text, TRUE, TRUE)
       ELSE Return(Replace(text, codename, get_size(m.used, <<"B">>)), TRUE, FALSE)

\* status = str(get_size(virtual_memory().used))
get_mem_used(text, m) ==
    LET codename == Codename.get_mem_used
    IN IF ~Contains(text, codename) THEN Return(text, FALSE, FALSE)
       ELSE IF m.t = "raise" THEN Return(text, TRUE, TRUE)
       ELSE Return(Replace(text, codename, get_size(m.used, <<"B">>)), TRUE, FALSE)

\* status = get_time_str(secs=get_now() - boot_time(), the_format=glovar.format_time)
get_up_time(text, m) ==
    LET codename == Codename.get_up_time
    IN IF ~Contains(text, codename) THEN Return(text, FALSE, FALSE)
       ELSE IF m.t = "raise" THEN Return(text, TRUE, TRUE)
       ELSE Return(Replace(text, codename, m.v), TRUE, FALSE)

(***************************************************************************)
(* Byte counts the model feeds get_size: every digit is one of these.      *)
(***************************************************************************)
DigitValues == {0, 1, 512, 1023}

Zero == [i \in 1..MaxDigits |-> 0]

\* a < c for two byte counts
Less(a, c) == \E i \in 1..MaxDigits : a[i] < c[i] /\ \A j \in (i + 1)..MaxDigits : a[j] = c[j]

\* n + 1, for n below the highest byte count
Succ(n) == AddAt(n, 1, 1)

InitSize ==
    /\ b = Zero
    /\ size = get_size(PyInt(b), <<"B">>)
    /\ report = <<>>
    /\ result = <<>>
    /\ pc = 0
    /\ calls = <<>>
    /\ metrics = <<>>
    /\ last = <<>>
    /\ fn = ""

\* get_size is called with a larger byte count: one digit is raised, the
\* digits below it kept or cleared
SizeGrow ==
    /\ \E i \in 1..MaxDigits, d \in DigitValues, keep \in BOOLEAN :
          /\ d > b[i]
          /\ b' = [j \in 1..MaxDigits |-> IF j = i THEN d ELSE IF j < i /\ ~keep THEN 0 ELSE b[j]]
    /\ size' = get_size(PyInt(b'), <<"B">>)
    /\ UNCHANGED <<report, result, pc, calls, metrics, last, fn>>

\* get_size is called with the next byte count, b + 1
SizeNext ==
    /\ \E i \in 1..MaxDigits : b[i] # factor - 1
    /\ b' = Succ(b)
    /\ \A i \in 1..MaxDigits : b'[i] \in DigitValues
    /\ size' = get_size(PyInt(b'), <<"B">>)
    /\ UNCHANGED <<report, result, pc, calls, metrics, last, fn>>

NextSize == SizeGrow \/ SizeNext

SpecSize == InitSize /\ [][NextSize]_vars

(***************************************************************************)
(* get_status, lines 364-396.                                              *)
(***************************************************************************)
\* the passes with the per-core sample before the total usage
OrderPerCoreEarly ==
    <<"get_interval", "get_last",
      "get_dist", "get_kernel", "get_hostname", "get_up_time",
      "get_cpu_count_physical", "get_cpu_count_logical", "get_cpu_freq_max",
      "get_cpu_freq_min", "get_cpu_freq_current", "get_cpu_usage_per",
      "get_cpu_usage_total",
      "get_mem_total", "get_mem_available", "get_mem_used", "get_mem_percent">>

\* the passes of lines 370-392, in the order of the lines
Order ==
    <<"get_interval", "get_last",
      "get_dist", "get_kernel", "get_hostname", "get_up_time",
      "get_cpu_count_physical", "get_cpu_count_logical", "get_cpu_freq_max",
      "get_cpu_freq_min", "get_cpu_freq_current", "get_cpu_usage_total",
      "get_cpu_usage_per",
      "get_mem_total", "get_mem_available", "get_mem_used", "get_mem_percent">>

Functions == {Order[i] : i \in 1..Len(Order)}

\* the call f(text), its accessor answering m
Call(f, text, m) ==
    CASE f = "get_interval" -> get_interval(text, m)
      [] f = "get_last" -> get_last(text, m)
      [] f = "get_dist" -> get_dist(text, m)
      [] f = "get_kernel" -> get_kernel(text, m)
      [] f = "get_hostname" -> get_hostname(text, m)
      [] f = "get_up_time" -> get_up_time(text, m)
      [] f = "get_cpu_count_physical" -> get_cpu_count_physical(text, m)
      [] f = "get_cpu_count_logical" -> get_cpu_count_logical(text, m)
      [] f = "get_cpu_freq_max" -> get_cpu_freq_max(text, m)
      [] f = "get_cpu_freq_min" -> get_cpu_freq_min(text, m)
      [] f = "get_cpu_freq_current" -> get_cpu_freq_current(text, m)
      [] f = "get_cpu_usage_total" -> get_cpu_usage_total(text, m)
      [] f = "get_cpu_usage_per" -> get_cpu_usage_per(text, m)
      [] f = "get_mem_total" -> get_mem_total(text, m)
      [] f = "get_mem_available" -> get_mem_available(text, m)
      [] f = "get_mem_used" -> get_mem_used(text, m)
      [] f = "get_mem_percent" -> get_mem_percent(text, m)

\* the accessor each function calls
Accessor ==
    [get_interval |-> "glovar.interval", get_last |-> "get_readable_time",
     get_dist |-> "linux_distribution", get_kernel |-> "uname",
     get_hostname |-> "gethostname", get_up_time |-> "boot_time",
     get_cpu_count_physical |-> "cpu_count(logical=False)",
     get_cpu_count_logical |-> "cpu_count(logical=True)",
     get_cpu_freq_max |-> "cpu_freq", get_cpu_freq_min |-> "cpu_freq",
     get_cpu_freq_current |-> "cpu_freq", get_cpu_usage_total |-> "cpu_percent()",
     get_cpu_usage_per |-> "cpu_percent(percpu=True, interval=1)",
     get_mem_total |-> "virtual_memory", get_mem_available |-> "virtual_memory",
     get_mem_used |-> "virtual_memory", get_mem_percent |-> "virtual_memory"]

(***************************************************************************)
(* The environment: what each accessor may answer, and the templates.      *)
(***************************************************************************)
\* a byte count from its low digits
Bytes(low) == PyInt([i \in 1..MaxDigits |-> IF i <= Len(low) THEN low[i] ELSE 0])

\* the percent of core i, in tenths: a different one for each core
CorePercent(i) == (125 * i) % 1001

\* the per-core samples: of no core, one core, ... up to MaxCores cores
Samples == {[i \in 1..n |-> CorePercent(i)] : n \in 0..MaxCores}

Svmem ==
    {[t |-> "svmem", total |-> Bytes(<<0, 0, 0, 2>>), available |-> Bytes(<<0, 0, 512>>),
      used |-> Bytes(<<0, 0, 512, 1>>), percent |-> PyFloat(750)],
     [t |-> "svmem", total |-> None, available |-> None, used |-> None, percent |-> PyFloat(0)]}

Scpufreq ==
    {[t |-> "scpufreq", current |-> 1796874, min |-> 800500, max |-> 2401500],
     [t |-> "scpufreq", current |-> 800125, min |-> 0, max |-> 0]}

\* gethostname() answers whatever name the host was given: an ordinary
\* name, the empty name, a name that is a token
Hostnames == {<<"s", "r", "v", "1">>, <<>>, Codename.get_mem_used}

Metric(f) ==
    {Raise} \cup
    CASE f = "get_interval" -> {PyInt(60)}
      [] f = "get_last" -> {Str(<<"1", "2", ":", "0", "0">>)}
      [] f = "get_dist" -> {Tuple(<<<<"D", "e", "b">>, <<"1", "0">>, <<"b", "u", "s">>>>),
                            Tuple(<<<<>>, <<>>, <<>>>>)}
      [] f = "get_kernel" -> {Str(<<"5", ".", "4">>)}
      [] f = "get_hostname" -> {Str(h) : h \in Hostnames}
      [] f = "get_up_time" -> {Str(<<"1", ":", "0", "0", ":", "0", "0">>)}
      [] f \in {"get_cpu_count_physical", "get_cpu_count_logical"} -> {PyInt(4), None}
      [] f \in {"get_cpu_freq_max", "get_cpu_freq_min", "get_cpu_freq_current"} ->
            Scpufreq \cup {None}
      [] f = "get_cpu_usage_total" -> {PyFloat(125)}
      [] f = "get_cpu_usage_per" -> {List(l) : l \in Samples}
      [] OTHER -> Svmem

\* the pieces templates are made of: tokens, each with or without a
\* separator after it, and text that is the tail of a token
Literals ==
    {<<"i", "n", "t", "e", "r", "v", "a", "l", "$">>,
     <<"h", "o", "s", "t", "n", "a", "m", "e", "$">>}

Separator == <<":", " ">>

RECURSIVE Concat(_)
Concat(pieces) == IF pieces = <<>> THEN <<>> ELSE pieces[1] \o Concat(Tail(pieces))

\* glovar.report: up to MaxPieces pieces, the tokens those of fs
Templates(fs) ==
    LET tokens == {Codename[f] : f \in fs}
        pieces == tokens \cup {p \o Separator : p \in tokens} \cup Literals
    IN {Concat(ps) : ps \in UNION {[1..n -> pieces] : n \in 0..MaxPieces}}

NoMetrics == [f \in Functions |-> Unfetched]

NoCall == [fn |-> "", text |-> <<>>, m |-> Unfetched, fetched |-> FALSE, logged |-> FALSE]

Init ==
    /\ report \in Templates({"get_interval", "get_hostname", "get_cpu_usage_total",
                              "get_cpu_usage_per", "get_mem_used"})
    /\ result = report
    /\ pc = 1
    /\ calls = <<>>
    /\ metrics = NoMetrics
    /\ last = NoCall
    /\ fn = "get_status"
    /\ b = <<>>
    /\ size = <<>>

\* the effect of one call f(result) on the state
Apply(f, m, r) ==
    /\ result' = r.result
    /\ calls' = IF r.fetched THEN Append(calls, [fn |-> f, accessor |-> Accessor[f], m |-> m]) ELSE calls
    /\ metrics' = IF r.fetched THEN [metrics EXCEPT ![f] = m] ELSE metrics
    /\ last' = [fn |-> f, text |-> result, m |-> IF r.fetched THEN m ELSE Unfetched,
                fetched |-> r.fetched, logged |-> r.logged]

\* line 369 + i: result = Order[i](result); an exception leaving the call
\* would go to the except clause of line 393 and on to the return
Pass(i) ==
    /\ pc = i
    /\ \E m \in Metric(Order[i]) : \E r \in {Call(Order[i], result, m)} :
          /\ Apply(Order[i], m, r)
          /\ pc' = IF r.raised THEN Len(Order) + 1 ELSE i + 1
    /\ UNCHANGED <<report, fn, b, size>>

\* line 396: return result
get_status_return ==
    /\ pc = Len(Order) + 1
    /\ pc' = Len(Order) + 2
    /\ UNCHANGED <<report, result, calls, metrics, last, fn, b, size>>

Done == pc = Len(Order) + 2

Next == (\E i \in 1..Len(Order) : Pass(i)) \/ get_status_return

Spec == Init /\ [][Next]_vars

(***************************************************************************)
(* One substitution function called on a text, and called again on what it *)
(* returned.                                                               *)
(***************************************************************************)
InitFn ==
    /\ fn \in Functions
    /\ report \in Templates({fn, "get_interval", "get_last"})
    /\ result = report
    /\ pc = 0
    /\ calls = <<>>
    /\ metrics = NoMetrics
    /\ last = NoCall
    /\ b = <<>>
    /\ size = <<>>

FnCall ==
    /\ pc < MaxCalls
    /\ \E m \in Metric(fn) : \E r \in {Call(fn, result, m)} : Apply(fn, m, r)
    /\ pc' = pc + 1
    /\ UNCHANGED <<report, fn, b, size>>

NextFn == FnCall

SpecFn == InitFn /\ [][NextFn]_vars

(***************************************************************************)
(* Properties of get_size (SpecSize).                                      *)
(***************************************************************************)
DigitOf(c) == CHOOSE d \in 0..9 : DigitChar[d + 1] = c

\* the printed number of a size text, in hundredths: the digits up to the
\* space, the point left out
RECURSIVE PrintedHundredths(_, _, _)
PrintedHundredths(s, i, acc) ==
    IF s[i] = " " THEN acc
    ELSE IF s[i] = "." THEN PrintedHundredths(s, i + 1, acc)
    ELSE PrintedHundredths(s, i + 1, 10 * acc + DigitOf(s[i]))

\* the index in Units of the unit a size text prints (0 for none)
PrintedUnit(s) ==
    LET u == s[Len(s) - 1]
    IN IF u = " " THEN 0 ELSE (CHOOSE i \in 1..Len(Units) : Units[i] = u) - 1

\* h1 * 1024^k1 <= h2 * 1024^k2, without computing the products
ScaledLE(h1, k1, h2, k2) ==
    IF k1 = k2 THEN h1 <= h2
    ELSE IF k1 < k2
         THEN IF k2 - k1 >= 3 THEN h1 = 0 \/ h2 > 0
              ELSE LET scale == IF k2 - k1 = 1 THEN factor ELSE factor * factor
                   IN (h1 + scale - 1) \div scale <= h2
         ELSE IF k1 - k2 >= 3 THEN h1 = 0
              ELSE LET scale == IF k1 - k2 = 1 THEN factor ELSE factor * factor
                   IN h1 <= h2 \div scale

\* the byte value one size text denotes is at most the one another denotes
DenotedLE(s1, s2) ==
    ScaledLE(PrintedHundredths(s1, 1, 0), PrintedUnit(s1), PrintedHundredths(s2, 1, 0), PrintedUnit(s2))

\* C7: get_size is monotonic: when get_size is called with a larger byte
\* count, the byte value its text denotes (printed number times 1024^unit
\* index) is not smaller than the one it denoted before.
C7_Monotonic == [][Less(b, b') => DenotedLE(size, size')]_vars

\* the unit index the claim names: the smallest k with n / 1024^k < 1024,
\* or the last one (P) when there is none
ClaimedUnit(n) ==
    IF \E k \in 0..(Len(Units) - 1) : FloatLess1024(n, k)
    THEN CHOOSE k \in 0..(Len(Units) - 1) :
            FloatLess1024(n, k) /\ \A j \in 0..(k - 1) : ~FloatLess1024(n, j)
    ELSE Len(Units) - 1

ClaimedSize(n) ==
    LET k == ClaimedUnit(n)
    IN Hundredths(Round2f(Round53(n), k)) \o <<" ">>
         \o (IF Units[k + 1] = "" THEN <<>> ELSE <<Units[k + 1]>>) \o <<"B">>

\* C8: for every byte count get_size prints the unit with index k and the
\* number b / 1024^k, k the smallest index with b / 1024^k < 1024, or 5 (P)
\* when there is none: the divisions made are as many as the index of the
\* unit printed.
C8_UnitMatchesDivisions == size = ClaimedSize(b)

\* the examples of C8 hold: 0 is "0.00 B", 1024 "1.00 KB", 1024^4 "1.00 TB"
C8_Examples ==
    /\ get_size(Bytes(<<0>>), <<"B">>) = <<"0", ".", "0", "0", " ", "B">>
    /\ get_size(Bytes(<<0, 1>>), <<"B">>) = <<"1", ".", "0", "0", " ", "K", "B">>
    /\ get_size(Bytes(<<0, 0, 0, 0, 1>>), <<"B">>) = <<"1", ".", "0", "0", " ", "T", "B">>

(***************************************************************************)
(* Properties of the substitution functions and of get_status.             *)
(***************************************************************************)
\* the text f puts in the place of its token when its accessor answers m
Value(f, m) == Call(f, Codename[f], m).result

Index(f) == CHOOSE i \in 1..Len(Order) : Order[i] = f

FreqFunctions == {"get_cpu_freq_max", "get_cpu_freq_min", "get_cpu_freq_current"}

SizeFunctions == {"get_mem_total", "get_mem_available", "get_mem_used"}

SizeField(f, m) ==
    CASE f = "get_mem_total" -> m.total
      [] f = "get_mem_available" -> m.available
      [] f = "get_mem_used" -> m.used

\* an error occurred while f fetched or formatted its metric: the accessor
\* threw, cpu_freq() answered None, or get_size could not format the value
ErrorOccurred(f, m) ==
    \/ m.t = "raise"
    \/ f \in FreqFunctions /\ m.t = "None"
    \/ f \in SizeFunctions /\ m.t = "svmem" /\ SizeField(f, m).t # "int"

\* C1: when the token is present and an error occurs while the metric is
\* fetched or formatted, the function returns its input unmodified, the
\* placeholder still in it.
C1_ErrorKeepsInput ==
    (last.fetched /\ ErrorOccurred(last.fn, last.m)) =>
        (result = last.text /\ Contains(result, Codename[last.fn]))

\* the functions whose token starts at position i of s (at most one: no
\* token has a "$" inside)
FnAt(s, i) == IF s[i] # "$" THEN {} ELSE {f \in Functions : MatchAt(s, Codename[f], i)}

NoToken(s) == \A f \in Functions : ~Contains(s, Codename[f])

\* the characters token names are made of
NameChars == UNION {{Codename[f][i] : i \in 2..(Len(Codename[f]) - 1)} : f \in Functions}

HasDollar(s) == \E i \in 1..Len(s) : s[i] = "$"

Fetched(f) == metrics[f].t # "unfetched"

Failed(f) == Fetched(f) /\ Call(f, Codename[f], metrics[f]).logged

\* what stands for the token of f in the report the claim describes: its
\* value when the fetch succeeded, the token itself when it failed or was
\* never made
Piece(f) == IF Fetched(f) THEN Value(f, metrics[f]) ELSE Codename[f]

\* the template read left to right, every token replaced at once
RECURSIVE Simultaneous(_, _)
Simultaneous(s, i) ==
    IF i > Len(s) THEN <<>>
    ELSE IF FnAt(s, i) # {}
         THEN LET f == CHOOSE f \in FnAt(s, i) : TRUE
              IN Piece(f) \o Simultaneous(s, i + Len(Codename[f]))
         ELSE <<s[i]>> \o Simultaneous(s, i + 1)

\* every "$" of s belongs to a token, and after every token comes, before
\* the next one, a character that is neither "$" nor part of a token name
RECURSIVE Separated(_, _, _)
Separated(s, i, open) ==
    IF i > Len(s) THEN TRUE
    ELSE IF FnAt(s, i) # {}
         THEN LET f == CHOOSE f \in FnAt(s, i) : TRUE
              IN ~open /\ Separated(s, i + Len(Codename[f]), TRUE)
         ELSE s[i] # "$" /\ Separated(s, i + 1, open /\ s[i] \in NameChars)

WellSeparated(s) == Separated(s, 1, FALSE)

\* no value substituted in this run has a "$" in it
NoDollarValue == \A f \in Functions : (Fetched(f) /\ ~Failed(f)) => ~HasDollar(Value(f, metrics[f]))

\* C2 as claimed: for any template and any accessors failing, get_status
\* returns the template with every present token whose accessor succeeded
\* replaced by its value and every token whose accessor failed left as it is.
C2_AllTokensSettled ==
    Done =>
        /\ result = Simultaneous(report, 1)
        /\ \A f \in Functions : (Contains(report, Codename[f]) /\ Failed(f)) => Contains(result, Codename[f])

\* C2 amended: the same, for a template whose "$" all belong to tokens, each
\* token followed by a separating character before the next, and values
\* without "$"; then every present token is fetched, whatever failed before.
C2_SeparatedTokensSettled ==
    (Done /\ WellSeparated(report) /\ NoDollarValue) =>
        /\ result = Simultaneous(report, 1)
        /\ \A f \in Functions : Contains(report, Codename[f]) <=> Fetched(f)
        /\ \A f \in Functions : Failed(f) => Contains(result, Codename[f])

C2_Witness ==
    /\ Done /\ WellSeparated(report) /\ NoDollarValue
    /\ \E f, g \in Functions :
          /\ Index(f) < Index(g)
          /\ Failed(f) /\ Fetched(g) /\ ~Failed(g)
          /\ Contains(result, Codename[f]) /\ ~Contains(result, Codename[g])

\* C3 as claimed: the accessor of a token is invoked only if the token is
\* in the template.
C3_FetchedOnlyIfInTemplate ==
    \A i \in 1..Len(calls) : Contains(report, Codename[calls[i].fn])

\* C3 amended: the accessor of a token is invoked exactly when the token is
\* in the text its pass receives; for a template of separated tokens and
\* values without "$" that is when the token is in the template.
C3_FetchedOnlyIfInInput ==
    /\ last.fn # "" => (last.fetched <=> Contains(last.text, Codename[last.fn]))
    /\ \A i \in 1..Len(calls) :
          ~Contains(report, Codename[calls[i].fn]) => ~(NoDollarValue /\ WellSeparated(report))

C3_Witness ==
    /\ Done
    /\ \E i \in 1..Len(calls) : ~Contains(report, Codename[calls[i].fn])

\* C4: a function whose token is not in its input returns the input
\* unchanged and does not call its accessor; get_status on a template with
\* no token returns the template and fetches nothing.
C4_AbsentTokenNoOp ==
    /\ (last.fn # "" /\ ~Contains(last.text, Codename[last.fn])) =>
          (result = last.text /\ ~last.fetched)
    /\ NoToken(report) => (result = report /\ calls = <<>>)

C4_Witness == Done /\ NoToken(report) /\ HasDollar(report) /\ result = report

\* where s.replace(old, ...) finds old: the leftmost occurrences, none
\* overlapping an earlier one
RECURSIVE Occurrences(_, _, _)
Occurrences(s, old, i) ==
    IF i > Len(s) THEN {}
    ELSE IF MatchAt(s, old, i) THEN {i} \cup Occurrences(s, old, i + Len(old))
    ELSE Occurrences(s, old, i + 1)

\* the last call replaced its token by a value
Substituted == last.fetched /\ ~last.logged

\* position q of the input lies in none of the replaced occurrences occ
Outside(q, occ, old) == \A o \in occ : q < o \/ q >= o + Len(old)

\* where position q of the input is found in the output
Shift(q, occ, old, new) == q + Cardinality({o \in occ : o < q}) * (Len(new) - Len(old))

\* the last call kept all text outside the occurrences of its token that
\* it replaced, and put the value in the place of each
OutsideKept ==
    IF ~Substituted THEN result = last.text
    ELSE LET old == Codename[last.fn]
             new == Value(last.fn, last.m)
             occ == Occurrences(last.text, old, 1)
         IN /\ Len(result) = Len(last.text) + Cardinality(occ) * (Len(new) - Len(old))
            /\ \A q \in 1..Len(last.text) :
                  Outside(q, occ, old) => result[Shift(q, occ, old, new)] = last.text[q]
            /\ \A o \in occ : \A j \in 1..Len(new) : result[Shift(o, occ, old, new) + j - 1] = new[j]

C6_TokenGone == Substituted => ~Contains(result, Codename[last.fn])

\* a value that is not empty, has no "$" and is no part of the token's name
Plain(f, v) ==
    /\ v # <<>>
    /\ ~HasDollar(v)
    /\ ~Contains(SubSeq(Codename[f], 2, Len(Codename[f]) - 1), v)

\* the i-th fetch of this run put a plain value in the text
PlainFetch(i) ==
    /\ ~Call(calls[i].fn, Codename[calls[i].fn], calls[i].m).logged
    /\ Plain(calls[i].fn, Value(calls[i].fn, calls[i].m))

\* C6 amended: after a successful call that put a plain value in the place
\* of the token, the output no longer has the token (every occurrence was
\* replaced), and calling the same function again returns its input
\* unchanged and fetches nothing.
C6_Idempotent ==
    /\ \A i \in 1..Len(calls) : PlainFetch(i) => i = Len(calls)
    /\ (calls # <<>> /\ PlainFetch(Len(calls))) =>
          /\ ~Contains(result, Codename[fn])
          /\ ~last.fetched => result = last.text

C6_Witness ==
    /\ calls # <<>> /\ PlainFetch(Len(calls))
    /\ ~last.fetched
    /\ Cardinality(Occurrences(report, Codename[fn], 1)) = 2
    /\ result # report

\* the tokens in the order the claim gives
ClaimedOrder ==
    <<Codename.get_interval, Codename.get_last, Codename.get_dist, Codename.get_kernel,
      Codename.get_hostname, Codename.get_up_time, Codename.get_cpu_count_physical,
      Codename.get_cpu_count_logical, Codename.get_cpu_freq_max, Codename.get_cpu_freq_min,
      Codename.get_cpu_freq_current, Codename.get_cpu_usage_total, Codename.get_cpu_usage_per,
      Codename.get_mem_total, Codename.get_mem_available, Codename.get_mem_used,
      Codename.get_mem_percent>>

CpuFunctions ==
    {"get_cpu_count_physical", "get_cpu_count_logical", "get_cpu_freq_max", "get_cpu_freq_min",
     "get_cpu_freq_current", "get_cpu_usage_total"}

MemFunctions == {"get_mem_total", "get_mem_available", "get_mem_used", "get_mem_percent"}

\* the place in the claimed order of the token f works on
ClaimedIndex(f) == CHOOSE i \in 1..Len(ClaimedOrder) : ClaimedOrder[i] = Codename[f]

ClaimedLine(percents, i) ==
    <<"\t", "\t", "\t", "\t">> \o lang("core") \o <<"\t">> \o IntToStr(i) \o lang("colon")
      \o code(PyStr(PyFloat(percents[i])) \o <<"%">>)

CountOf(s, c) == Cardinality({i \in 1..Len(s) : s[i] = c})

\* C10: when the per-core sample returns n values the token is replaced by
\* n lines, the i-th with the index i and the percent of core i, joined by
\* single newlines, none at the end; by the empty text for n = 0.
C10_PerCoreLines ==
    (last.fn = "get_cpu_usage_per" /\ Substituted) =>
        LET percents == last.m.v
            n == Len(percents)
            status == Value(last.fn, last.m)
        IN /\ status = Join(<<"\n">>, [i \in 1..n |-> ClaimedLine(percents, i)])
           /\ CountOf(status, "\n") = (IF n = 0 THEN 0 ELSE n - 1)
           /\ n = 0 <=> status = <<>>
           /\ status # <<>> => status[Len(status)] # "\n"
           /\ result = Replace(last.text, Codename[last.fn], status)

C10_Witness ==
    /\ last.fn = "get_cpu_usage_per" /\ Substituted
    /\ Len(last.m.v) = MaxCores
    /\ CountOf(result, "\n") = MaxCores - 1

====
